---- MODULE Spec2Model ----
(***************************************************************************)
(* Model of data_scraper/ghana_universities_scraper.py:                    *)
(* GhanaUniversityDataScraper, one scrape-and-persist cycle per process.   *)
(*                                                                         *)
(* Python dicts are functions from strings (built with :> and @@; in       *)
(* f @@ g the left operand wins, so {**a, **b} is b @@ a).  A coroutine is *)
(* cut into one action per awaited I/O operation.  An HTML document is the *)
(* record of what the extractors look for in it.                           *)
(***************************************************************************)
EXTENDS Integers, Sequences, FiniteSets, TLC

\* ------------------------------------------------------------------ bounds

\* processes (full cycles) started one after the other
MaxRuns == 2
\* longest sequence of matched elements handed to an extractor
MaxMatches == 50
\* most whitespace characters around an element's text
MaxPad == 2

\* ------------------------------------------------------- program constants

rate_limit_delay == 2

\* set by __init__ and read by no method: no request is made again
max_retries == 3

EmptyDict == [k \in {} |-> 0]

UniCodes == <<"KNUST", "UG", "UCC">>

university_sources ==
  [KNUST |-> [url |-> "https://www.knust.edu.gh",
              admissions_url |-> "https://www.knust.edu.gh/admissions"],
   UG    |-> [url |-> "https://www.ug.edu.gh",
              admissions_url |-> "https://www.ug.edu.gh/admissions"],
   UCC   |-> [url |-> "https://www.ucc.edu.gh",
              admissions_url |-> "https://www.ucc.edu.gh/admissions"]]

fallback_data ==
  [KNUST |-> [full_name |-> "Kwame Nkrumah University of Science and Technology",
              location |-> "Kumasi", established |-> 1952,
              type |-> "public", status |-> "fallback_data"],
   UG    |-> [full_name |-> "University of Ghana",
              location |-> "Legon, Accra", established |-> 1948,
              type |-> "public", status |-> "fallback_data"],
   UCC   |-> [full_name |-> "University of Cape Coast",
              location |-> "Cape Coast", established |-> 1962,
              type |-> "public", status |-> "fallback_data"]]

_get_fallback_university_data(uni_code) ==
  IF uni_code \in DOMAIN fallback_data
    THEN fallback_data[uni_code]
    ELSE [status |-> "no_data_available"]

ScholarshipIds ==
  <<"getfund", "mastercard_foundation", "ghana_government", "cocoa_scholarship">>

\* the static scholarship table (the descriptive fields that are plain strings),
\* each entry stamped with the time of the call
enhanced_scholarships(now) ==
  [getfund |->
     [full_name |-> "Ghana Education Trust Fund (GETFund)",
      type |-> "government", website |-> "https://getfund.gov.gh",
      application_period |-> "July - September annually",
      last_updated |-> now],
   mastercard_foundation |->
     [full_name |-> "Mastercard Foundation Scholars Program",
      type |-> "international",
      website |-> "https://mastercardfdn.org/scholars-program/",
      application_period |-> "Varies by university partner",
      last_updated |-> now],
   ghana_government |->
     [full_name |-> "Ghana Government Scholarship Scheme",
      type |-> "government", website |-> "https://moe.gov.gh/scholarships",
      application_period |-> "March - May annually",
      last_updated |-> now],
   cocoa_scholarship |->
     [full_name |-> "COCOBOD Scholarship Scheme",
      type |-> "industry",
      application_period |-> "June - August annually",
      last_updated |-> now]]

\* the static cut-off table of the academic year, stamped with the time of the call
current_cut_offs(now) ==
  "2024_2025" :>
     [KNUST |-> ("Medicine" :> 6 @@ "Engineering" :> 12 @@ "Pharmacy" :> 8
                 @@ "Architecture" :> 10 @@ "Agriculture" :> 20
                 @@ "Science" :> 16 @@ "Art" :> 24 @@ "Built Environment" :> 14),
      UG    |-> ("Medicine" :> 6 @@ "Law" :> 10 @@ "Business Administration" :> 15
                 @@ "Engineering Sciences" :> 14 @@ "Physical Sciences" :> 18
                 @@ "Arts" :> 22 @@ "Social Sciences" :> 20),
      UCC   |-> ("Education" :> 22 @@ "Business School" :> 18
                 @@ "Health Sciences" :> 16 @@ "Agriculture" :> 20
                 @@ "Computing" :> 15),
      UPSA  |-> ("Business Administration" :> 24 @@ "ICT" :> 22 @@ "Law" :> 18),
      UDS   |-> ("Medicine" :> 8 @@ "Agriculture" :> 22 @@ "Engineering" :> 16
                 @@ "Business" :> 24)]
  @@ "last_updated" :> now
  @@ "source" :> "Ghana Admissions Portal Aggregate"
  @@ "academic_year" :> "2024/2025"

DataFiles == <<"ghana_universities.json", "scholarships.json", "cut_off_points.json">>

\* ------------------------------------------------------------ text and HTML

\* A text is known by the element it comes from (id) and by its length:
\* lead and trail whitespace characters around core other characters.
TextLen(t) == t.lead + t.core + t.trail

\* str.strip(): the whitespace at both ends goes
strip(t) == [t EXCEPT !.lead = 0, !.trail = 0]

\* elem.get_text()
get_text(elem) == elem.text

\* s[:n]
Take(s, n) == SubSeq(s, 1, IF Len(s) < n THEN Len(s) ELSE n)

SeqToSet(s) == {s[i] : i \in 1..Len(s)}

\* the slice [:20] dropped: every match is considered
_extract_programs_noslice(program_elements) ==
  LET kept == SelectSeq(program_elements,
                LAMBDA e : 10 < TextLen(strip(get_text(e)))
                           /\ TextLen(strip(get_text(e))) < 100)
  IN  [i \in 1..Len(kept) |-> strip(get_text(kept[i]))]

\* program_elements: the elements soup.find_all matched, in document order
_extract_programs(program_elements) ==
  LET kept == SelectSeq(Take(program_elements, 20),
                LAMBDA e : 10 < TextLen(strip(get_text(e)))
                           /\ TextLen(strip(get_text(e))) < 100)
  IN  [i \in 1..Len(kept) |-> strip(get_text(kept[i]))]

\* a text of exactly 20 characters kept too
_extract_admission_requirements_from20(req_sections) ==
  LET kept == SelectSeq(Take(req_sections, 3),
                LAMBDA s : TextLen(strip(s.parent)) >= 20
                           /\ TextLen(strip(s.parent)) < 500)
  IN  [i \in 1..Len(kept) |-> strip(kept[i].parent)]

\* req_sections: the matched elements; parent is the text of section.parent
\* (or of the section itself when it has none)
_extract_admission_requirements(req_sections) ==
  LET kept == SelectSeq(Take(req_sections, 3),
                LAMBDA s : TextLen(strip(s.parent)) > 20
                           /\ TextLen(strip(s.parent)) < 500)
  IN  [i \in 1..Len(kept) |-> strip(kept[i].parent)]

\* dates: what re.findall(date_pattern, text) returns; list(set(...)) is the set
_extract_deadlines(dates) == SeqToSet(dates)

\* emails: the matches of email_pattern; phones: the matches of phone_pattern,
\* of which re.findall returns the one group, the prefix (+233 or 0).
\* None is the empty dict (both are falsy where the result is tested).
_extract_contact_info(emails, phones) ==
  (IF emails # <<>> THEN "emails" :> SeqToSet(emails) ELSE EmptyDict)
  @@ (IF phones # <<>>
        THEN "phones" :> {phones[i].prefix : i \in 1..Len(phones)}
        ELSE EmptyDict)

\* ------------------------------------------------------------- the network

\* the element with number n whose text has c characters between l and t
\* whitespace characters
Elem(n, l, c, t) == [text |-> [id |-> n, lead |-> l, core |-> c, trail |-> t]]

\* a matched section with number n whose parent's text has c characters
Section(n, c) == [parent |-> [id |-> n, lead |-> 1, core |-> c, trail |-> 1]]

\* a document in which no extractor finds anything
BlankPage ==
  [meta |-> <<>>, emails |-> <<>>, phones |-> <<>>, dates |-> <<>>,
   req_sections |-> <<>>, program_elements |-> <<>>]

\* a document in which every extractor finds something, with repeated matches
\* and with texts on both sides of every length limit
RichPage ==
  [meta |-> <<"The official university website">>,
   emails |-> <<"info@uni.edu.gh", "admissions@uni.edu.gh", "info@uni.edu.gh">>,
   phones |-> <<[prefix |-> "0", digits |-> "244123456"],
                [prefix |-> "+233", digits |-> "302213850"],
                [prefix |-> "0", digits |-> "322060331"]>>,
   dates |-> <<"March 15th, 2025", "July 1, 2025", "March 15th, 2025">>,
   req_sections |-> <<Section(1, 20), Section(2, 21), Section(3, 499),
                      Section(4, 120)>>,
   program_elements |-> <<Elem(1, 0, 10, 0), Elem(2, 1, 11, 1),
                          Elem(3, 0, 99, 2), Elem(4, 0, 100, 0)>>]

\* what session.get(url) can do: answer with a status and a body, or raise
Response(status, body) ==
  [exc |-> FALSE, cause |-> "", status |-> status, body |-> body]

Failure(cause) ==
  [exc |-> TRUE, cause |-> cause, status |-> 0, body |-> BlankPage]

AllOutcomes ==
  { Failure("timeout"),
    Response(404, RichPage), Response(203, RichPage),
    Response(200, BlankPage), Response(200, RichPage) }

\* the outcomes explored together with storage faults and repeated runs
PipelineOutcomes == { Failure("timeout"), Response(200, RichPage) }

\* ----------------------------------------------------------- page fetchers

\* A fetcher returns [raised, data]: raised when an exception leaves it.

\* every 2xx status taken for a success
_fetch_admissions_page_2xx(resp) ==
  IF resp.exc
    THEN [raised |-> FALSE,
          data |-> "admissions_url_accessible" :> FALSE @@ "error" :> resp.cause]
    ELSE IF resp.status >= 200 /\ resp.status < 300
      THEN LET requirements ==
                 _extract_admission_requirements(resp.body.req_sections)
               deadlines == _extract_deadlines(resp.body.dates)
               programs == _extract_programs(resp.body.program_elements)
           IN  [raised |-> FALSE,
                data |-> "admissions_url_accessible" :> TRUE
                  @@ (IF Len(requirements) > 0
                        THEN "admission_requirements" :> requirements
                        ELSE EmptyDict)
                  @@ (IF deadlines # {} THEN "deadlines" :> deadlines
                                        ELSE EmptyDict)
                  @@ (IF Len(programs) > 0 THEN "programs" :> programs
                                           ELSE EmptyDict)]
      ELSE [raised |-> FALSE, data |-> "admissions_url_accessible" :> FALSE]

\* without the try of its own: the exception of the request leaves the fetcher
_fetch_university_main_page_raising(resp, now) ==
  IF resp.exc
    THEN [raised |-> TRUE, data |-> EmptyDict]
    ELSE IF resp.status = 200
      THEN LET contact_info ==
                 _extract_contact_info(resp.body.emails, resp.body.phones)
           IN  [raised |-> FALSE,
                data |-> "url_accessible" :> TRUE @@ "last_checked" :> now
                  @@ (IF resp.body.meta # <<>>
                        THEN "description" :> resp.body.meta[1]
                        ELSE EmptyDict)
                  @@ (IF contact_info # EmptyDict
                        THEN "contact" :> contact_info
                        ELSE EmptyDict)]
      ELSE [raised |-> FALSE,
            data |-> "url_accessible" :> FALSE @@ "status_code" :> resp.status]

_fetch_university_main_page(resp, now) ==
  IF resp.exc
    THEN [raised |-> FALSE,
          data |-> "url_accessible" :> FALSE @@ "error" :> resp.cause]
    ELSE IF resp.status = 200
      THEN LET contact_info ==
                 _extract_contact_info(resp.body.emails, resp.body.phones)
           IN  [raised |-> FALSE,
                data |-> "url_accessible" :> TRUE @@ "last_checked" :> now
                  @@ (IF resp.body.meta # <<>>
                        THEN "description" :> resp.body.meta[1]
                        ELSE EmptyDict)
                  @@ (IF contact_info # EmptyDict
                        THEN "contact" :> contact_info
                        ELSE EmptyDict)]
      ELSE [raised |-> FALSE,
            data |-> "url_accessible" :> FALSE @@ "status_code" :> resp.status]

\* the fields extracted before the status is looked at
_fetch_admissions_page_eager(resp) ==
  IF resp.exc
    THEN [raised |-> FALSE,
          data |-> "admissions_url_accessible" :> FALSE @@ "error" :> resp.cause]
    ELSE LET programs == _extract_programs(resp.body.program_elements)
         IN  [raised |-> FALSE,
              data |-> "admissions_url_accessible" :> (resp.status = 200)
                @@ (IF Len(programs) > 0 THEN "programs" :> programs
                                         ELSE EmptyDict)]

_fetch_admissions_page(resp) ==
  IF resp.exc
    THEN [raised |-> FALSE,
          data |-> "admissions_url_accessible" :> FALSE @@ "error" :> resp.cause]
    ELSE IF resp.status = 200
      THEN LET requirements ==
                 _extract_admission_requirements(resp.body.req_sections)
               deadlines == _extract_deadlines(resp.body.dates)
               programs == _extract_programs(resp.body.program_elements)
           IN  [raised |-> FALSE,
                data |-> "admissions_url_accessible" :> TRUE
                  @@ (IF Len(requirements) > 0
                        THEN "admission_requirements" :> requirements
                        ELSE EmptyDict)
                  @@ (IF deadlines # {} THEN "deadlines" :> deadlines
                                        ELSE EmptyDict)
                  @@ (IF Len(programs) > 0 THEN "programs" :> programs
                                           ELSE EmptyDict)]
      ELSE [raised |-> FALSE, data |-> "admissions_url_accessible" :> FALSE]

\* the gaps of the scraped record filled from the static record
CombineData_filled(uni_code, main, admissions, now) ==
  "last_updated" :> now
  @@ "source_urls" :> <<university_sources[uni_code].url,
                        university_sources[uni_code].admissions_url>>
  @@ admissions @@ main @@ _get_fallback_university_data(uni_code)

\* {**main_data, **admissions_data, 'last_updated': ..., 'source_urls': [...]}
CombineData(uni_code, main, admissions, now) ==
  "last_updated" :> now
  @@ "source_urls" :> <<university_sources[uni_code].url,
                        university_sources[uni_code].admissions_url>>
  @@ admissions @@ main

\* ---------------------------------------------------------------- storage

\* json.dump of a dict of strings, numbers, booleans, lists and dicts writes
\* all of it; the file then holds the dict
WrittenFile(content) == [state |-> "written", content |-> content]

\* open(..., 'w') succeeded and the dump did not finish
TruncatedFile == [state |-> "truncated", content |-> EmptyDict]

AbsentFile == [state |-> "absent", content |-> EmptyDict]

\* insert_one in the place of the upsert
ReplaceOne_insert(collection, key_field, key, document) ==
  Append(collection, document)

\* collection.replace_one({key_field: key}, document, upsert=True): the first
\* document with the key is replaced; without one the document is inserted
ReplaceOne(collection, key_field, key, document) ==
  LET hits == {i \in 1..Len(collection) : collection[i][key_field] = key}
  IN  IF hits = {}
        THEN Append(collection, document)
        ELSE LET first == CHOOSE i \in hits : \A j \in hits : i <= j
             IN  [collection EXCEPT ![first] = document]

\* ------------------------------------------------------------------- state

VARIABLES
  pc,                 \* where the process is
  idx,                \* position of the loop the process is in
  main_data,          \* _scrape_universities: local main_data
  admissions_data,    \* _scrape_universities: local admissions_data
  universities_data,  \* self.universities_data
  scholarships_data,  \* self.scholarships_data
  cut_off_points,     \* self.cut_off_points
  files,              \* the three files of the data directory
  db,                 \* the three collections of the database
  clock,              \* the time datetime.now() reads
  log,                \* the messages the process has logged
  upstream,           \* what each URL has answered: the sites do not change
  net,                \* what a URL asked for the first time may answer
  runs,               \* processes started so far
  requests,           \* the GET requests of this process, with their times
  stored_at,          \* when each record of universities_data was stored
  attempted,          \* the writes this process has begun
  failed,             \* the writes of this process that raised
  files0,             \* the files as this process found them
  db0,                \* the database as this process found it
  prev,               \* the database as the previous process left it
  elements,           \* extractors alone: the matched elements
  sections,           \* extractors alone: the matched requirement sections
  extracted,          \* extractors alone: the result
  xpc                 \* extractors alone: "input", then the extractor that ran

vars ==
  <<pc, idx, main_data, admissions_data, universities_data, scholarships_data,
    cut_off_points, files, db, clock, log, upstream, net, runs, requests,
    stored_at, attempted, failed, files0, db0, prev, elements, sections,
    extracted, xpc>>

memory == <<universities_data, scholarships_data, cut_off_points>>
locals == <<main_data, admissions_data>>
storage == <<files, db>>
writes == <<attempted, failed>>
process == <<runs, files0, db0, prev>>
extractor == <<elements, sections, extracted, xpc>>

EmptyDb ==
  [universities_data |-> <<>>, scholarships_data |-> <<>>, cut_off_points |-> <<>>]

\* __init__ (lines 52-100) in a data directory and a database not written yet
InitProcess ==
  /\ pc = "idle"
  /\ idx = 1
  /\ main_data = EmptyDict
  /\ admissions_data = EmptyDict
  /\ universities_data = EmptyDict
  /\ scholarships_data = EmptyDict
  /\ cut_off_points = EmptyDict
  /\ files = [f \in SeqToSet(DataFiles) |-> AbsentFile]
  /\ db = EmptyDb
  /\ clock = 0
  /\ log = {}
  /\ upstream = EmptyDict
  /\ runs = 1
  /\ requests = <<>>
  /\ stored_at = EmptyDict
  /\ attempted = {}
  /\ failed = {}
  /\ files0 = [f \in SeqToSet(DataFiles) |-> AbsentFile]
  /\ db0 = EmptyDb
  /\ prev = [clean |-> FALSE, db |-> EmptyDb]

NoExtractor ==
  /\ elements = <<>>
  /\ sections = <<>>
  /\ extracted = <<>>
  /\ xpc = "off"

Init ==
  /\ InitProcess
  /\ NoExtractor
  /\ net = PipelineOutcomes

InitScrape ==
  /\ InitProcess
  /\ NoExtractor
  /\ net = AllOutcomes

\* ------------------------------------------------------- _scrape_universities

\* session.get(url): a URL answers as it has answered before
Served(url, resp) ==
  IF url \in DOMAIN upstream
    THEN resp = upstream[url] /\ UNCHANGED upstream
    ELSE resp \in net /\ upstream' = (url :> resp) @@ upstream

\* the for loop of _scrape_universities moves to the next source, or the
\* method returns to scrape_all_data
NextSource ==
  IF idx < Len(UniCodes)
    THEN pc' = "main" /\ idx' = idx + 1
    ELSE pc' = "scholarships" /\ idx' = 1

\* the except branch of the loop body: the static record is stored, nothing sleeps
ScrapeExcept(uni_code) ==
  /\ universities_data' =
       (uni_code :> _get_fallback_university_data(uni_code)) @@ universities_data
  /\ stored_at' = (uni_code :> clock + 1) @@ stored_at
  /\ log' = log \cup {"Error scraping"}
  /\ NextSource

\* main() enters the context manager and calls scrape_all_data
Start ==
  /\ pc = "idle"
  /\ pc' = "main"
  /\ idx' = 1
  /\ log' = log \cup {"Starting"}
  /\ UNCHANGED <<locals, memory, storage, clock, upstream, net, requests,
                 stored_at, writes, process, extractor>>

\* await self._fetch_university_main_page(config['url'])
FetchMain ==
  /\ pc = "main"
  /\ LET uni_code == UniCodes[idx]
         url == university_sources[uni_code].url
     IN  \E resp \in AllOutcomes :
           /\ Served(url, resp)
           /\ requests' = Append(requests, [url |-> url, at |-> clock])
           /\ clock' = clock + 1
           /\ LET r == _fetch_university_main_page(resp, clock + 1)
              IN  IF r.raised
                    THEN /\ ScrapeExcept(uni_code)
                         /\ UNCHANGED locals
                    ELSE /\ main_data' = r.data
                         /\ pc' = "admissions"
                         /\ UNCHANGED <<idx, admissions_data, universities_data,
                                        stored_at, log>>
  /\ UNCHANGED <<scholarships_data, cut_off_points, storage, net, writes,
                 process, extractor>>

\* await self._fetch_admissions_page(config['admissions_url']) and the merge
FetchAdmissions ==
  /\ pc = "admissions"
  /\ LET uni_code == UniCodes[idx]
         url == university_sources[uni_code].admissions_url
     IN  \E resp \in AllOutcomes :
           /\ Served(url, resp)
           /\ requests' = Append(requests, [url |-> url, at |-> clock])
           /\ clock' = clock + 1
           /\ LET r == _fetch_admissions_page(resp)
              IN  IF r.raised
                    THEN /\ ScrapeExcept(uni_code)
                         /\ UNCHANGED locals
                    ELSE /\ admissions_data' = r.data
                         /\ universities_data' =
                              (uni_code :> CombineData(uni_code, main_data,
                                                       r.data, clock + 1))
                              @@ universities_data
                         /\ stored_at' = (uni_code :> clock + 1) @@ stored_at
                         /\ pc' = "sleep"
                         /\ UNCHANGED <<idx, main_data, log>>
  /\ UNCHANGED <<scholarships_data, cut_off_points, storage, net, writes,
                 process, extractor>>

\* asyncio.sleep called and not awaited: no time passes
Sleep_not_awaited ==
  /\ pc = "sleep"
  /\ NextSource
  /\ UNCHANGED <<locals, memory, storage, clock, log, upstream, net, requests,
                 stored_at, writes, process, extractor>>

\* await asyncio.sleep(self.rate_limit_delay)
Sleep ==
  /\ pc = "sleep"
  /\ clock' = clock + rate_limit_delay
  /\ NextSource
  /\ UNCHANGED <<locals, memory, storage, log, upstream, net, requests,
                 stored_at, writes, process, extractor>>

\* ------------------------------------------- the static tables and the files

\* await self._scrape_scholarships()
ScrapeScholarships ==
  /\ pc = "scholarships"
  /\ scholarships_data' = enhanced_scholarships(clock)
  /\ log' = log \cup {"Updated scholarship programs"}
  /\ pc' = "cut_offs"
  /\ UNCHANGED <<idx, locals, universities_data, cut_off_points, storage, clock,
                 upstream, net, requests, stored_at, writes, process, extractor>>

\* await self._scrape_cut_off_points(), then _save_data is entered
ScrapeCutOffPoints ==
  /\ pc = "cut_offs"
  /\ cut_off_points' = current_cut_offs(clock)
  /\ log' = log \cup {"Cut-off points updated"}
  /\ pc' = "files"
  /\ idx' = 1
  /\ UNCHANGED <<locals, universities_data, scholarships_data, storage, clock,
                 upstream, net, requests, stored_at, writes, process, extractor>>

\* the three file writes, in the order of _save_data
FileWrites == [i \in 1..Len(DataFiles) |-> <<"file", DataFiles[i]>>]

\* the documents of _save_to_database, in the order of its three parts;
\* universities_data.items() runs in insertion order, the registry's
UniversityKeys == SelectSeq(UniCodes, LAMBDA c : c \in DOMAIN universities_data)

DbWrites ==
  [i \in 1..Len(UniversityKeys) |-> <<"universities_data", UniversityKeys[i]>>]
  \o [i \in 1..Len(ScholarshipIds) |-> <<"scholarships_data", ScholarshipIds[i]>>]
  \o << <<"cut_off_points", "2024_2025">> >>

\* a failed file write caught and the next write carried on with
OnFileError_continue(resume) == resume

\* _save_data's except logs and raises; scrape_all_data's except logs and
\* raises; main logs: the process ends without another write.
\* resume is where the writes would have gone on.
OnFileError(resume) == <<"failed", 1>>

\* a failed upsert caught document by document
OnDatabaseError_continue(resume) == resume

\* _save_to_database's except logs and returns: _save_data and
\* scrape_all_data log their success and the process ends
OnDatabaseError(resume) == <<"done", 1>>

\* with open(self.data_dir / name, 'w') as f: json.dump(...), for each file
SaveFile ==
  /\ pc = "files"
  /\ LET name == DataFiles[idx]
         content == <<universities_data, scholarships_data, cut_off_points>>[idx]
         resume == IF idx < Len(DataFiles) THEN <<"files", idx + 1>>
                                           ELSE <<"db_universities", 1>>
     IN  \E result \in {"ok", "open_failed", "dump_failed"} :
           /\ attempted' = attempted \cup {<<"file", name>>}
           /\ IF result = "ok"
                THEN /\ files' = [files EXCEPT ![name] = WrittenFile(content)]
                     /\ pc' = resume[1]
                     /\ idx' = resume[2]
                     /\ UNCHANGED <<failed, log>>
                ELSE /\ files' = IF result = "open_failed" THEN files
                                 ELSE [files EXCEPT ![name] = TruncatedFile]
                     /\ failed' = failed \cup {<<"file", name>>}
                     /\ log' = log \cup {"Error saving data", "Scraping error",
                                         "Scraper failed"}
                     /\ pc' = OnFileError(resume)[1]
                     /\ idx' = OnFileError(resume)[2]
  /\ clock' = clock + 1
  /\ UNCHANGED <<locals, memory, db, upstream, net, requests, stored_at,
                 process, extractor>>

\* ----------------------------------------------------------- _save_to_database

Successful == {"Data saved to MongoDB Atlas", "All data saved successfully!",
               "Data scraping completed successfully!"}

Swallowed == {"Database save error", "All data saved successfully!",
              "Data scraping completed successfully!"}

\* one await collection.replace_one(..., upsert=True) of the collection named
\* name, with what follows it: the next upsert, or the way out.  A call that
\* raises was refused, or was applied by the server and its reply lost.
Upsert(name, key_field, key, data, resume) ==
  \E result \in {"ok", "refused", "reply_lost"} :
    /\ attempted' = attempted \cup {<<name, key>>}
    /\ clock' = clock + 1
    /\ db' = IF result = "refused" THEN db
             ELSE [db EXCEPT ![name] =
                     ReplaceOne(@, key_field, key,
                                key_field :> key @@ "data" :> data
                                @@ "last_updated" :> clock + 1)]
    /\ IF result = "ok"
         THEN /\ pc' = resume[1]
              /\ idx' = resume[2]
              /\ log' = IF resume[1] = "done" THEN log \cup Successful ELSE log
              /\ UNCHANGED failed
         ELSE /\ failed' = failed \cup {<<name, key>>}
              /\ log' = log \cup Swallowed
              /\ pc' = OnDatabaseError(resume)[1]
              /\ idx' = OnDatabaseError(resume)[2]

\* for uni_code, data in self.universities_data.items(): replace_one
SaveUniversity ==
  /\ pc = "db_universities"
  /\ LET uni_code == UniversityKeys[idx]
     IN  Upsert("universities_data", "university_code", uni_code,
                universities_data[uni_code],
                IF idx < Len(UniversityKeys) THEN <<"db_universities", idx + 1>>
                                             ELSE <<"db_scholarships", 1>>)
  /\ UNCHANGED <<locals, memory, files, upstream, net, requests, stored_at,
                 process, extractor>>

\* for scholarship_id, data in self.scholarships_data.items(): replace_one
SaveScholarship ==
  /\ pc = "db_scholarships"
  /\ LET scholarship_id == ScholarshipIds[idx]
     IN  Upsert("scholarships_data", "scholarship_id", scholarship_id,
                scholarships_data[scholarship_id],
                IF idx < Len(ScholarshipIds) THEN <<"db_scholarships", idx + 1>>
                                             ELSE <<"db_cut_offs", 1>>)
  /\ UNCHANGED <<locals, memory, files, upstream, net, requests, stored_at,
                 process, extractor>>

\* cutoffs_collection.replace_one({'academic_year': '2024_2025'}, ...)
SaveCutOffPoints ==
  /\ pc = "db_cut_offs"
  /\ Upsert("cut_off_points", "academic_year", "2024_2025", cut_off_points,
            <<"done", 1>>)
  /\ UNCHANGED <<locals, memory, files, upstream, net, requests, stored_at,
                 process, extractor>>

\* ------------------------------------------------------------- the next run

\* the process has ended and the scraper is started again: nothing of its
\* memory is left, the files, the database and the sites are as they were
Rerun ==
  /\ pc \in {"done", "failed"}
  /\ runs < MaxRuns
  /\ runs' = runs + 1
  /\ prev' = [clean |-> pc = "done" /\ failed = {}, db |-> db]
  /\ files0' = files
  /\ db0' = db
  /\ pc' = "idle"
  /\ idx' = 1
  /\ main_data' = EmptyDict
  /\ admissions_data' = EmptyDict
  /\ universities_data' = EmptyDict
  /\ scholarships_data' = EmptyDict
  /\ cut_off_points' = EmptyDict
  /\ log' = {}
  /\ requests' = <<>>
  /\ stored_at' = EmptyDict
  /\ attempted' = {}
  /\ failed' = {}
  /\ clock' = clock + 1
  /\ UNCHANGED <<storage, upstream, net, extractor>>

Next ==
  \/ Start
  \/ FetchMain
  \/ FetchAdmissions
  \/ Sleep
  \/ ScrapeScholarships
  \/ ScrapeCutOffPoints
  \/ SaveFile
  \/ SaveUniversity
  \/ SaveScholarship
  \/ SaveCutOffPoints
  \/ Rerun

Spec == Init /\ [][Next]_vars

\* _scrape_universities alone, under every outcome of every request
NextScrape ==
  \/ Start
  \/ FetchMain
  \/ FetchAdmissions
  \/ Sleep

SpecScrape == InitScrape /\ [][NextScrape]_vars

\* ------------------------------------------------------ the extractors alone

\* the lengths the matched texts are drawn from: both sides of every limit
CoreLens == <<0, 10, 11, 55, 99, 100>>

\* n matched elements whose lengths walk through CoreLens from offset by stride
MatchedElements(n, offset, stride) ==
  [i \in 1..n |->
     Elem(i, i % (MaxPad + 1),
          CoreLens[((offset + i * stride) % Len(CoreLens)) + 1],
          (i + 1) % (MaxPad + 1))]

\* the lengths the texts around the matched sections are drawn from
ParentLens == <<19, 20, 21, 250, 499, 500>>

\* n matched sections whose parents' lengths walk through ParentLens
MatchedSections(n, offset, stride) ==
  [i \in 1..n |->
     Section(i, ParentLens[((offset + i * stride) % Len(ParentLens)) + 1])]

InitExtract ==
  /\ InitProcess
  /\ net = {}
  /\ xpc = "input"
  /\ extracted = <<>>
  /\ \E n \in 0..MaxMatches, offset \in 0..(Len(CoreLens) - 1),
        stride \in 0..(Len(CoreLens) - 1) :
       /\ elements = MatchedElements(n, offset, stride)
       /\ sections = MatchedSections(n, offset, stride)

\* programs = self._extract_programs(soup)
ExtractPrograms ==
  /\ xpc = "input"
  /\ extracted' = _extract_programs(elements)
  /\ xpc' = "programs"
  /\ UNCHANGED <<pc, idx, locals, memory, storage, clock, log, upstream, net,
                 requests, stored_at, writes, process, elements, sections>>

\* requirements = self._extract_admission_requirements(soup)
ExtractRequirements ==
  /\ xpc = "input"
  /\ extracted' = _extract_admission_requirements(sections)
  /\ xpc' = "requirements"
  /\ UNCHANGED <<pc, idx, locals, memory, storage, clock, log, upstream, net,
                 requests, stored_at, writes, process, elements, sections>>

NextExtract ==
  \/ ExtractPrograms
  \/ ExtractRequirements

SpecExtract == InitExtract /\ [][NextExtract]_vars

\* ------------------------------------------------------------------ claims

MainUrl(uni_code) == university_sources[uni_code].url
AdmissionsUrl(uni_code) == university_sources[uni_code].admissions_url

\* _scrape_universities has returned
ScrapeReturned == pc = "scholarships"

\* the process has ended
Ended == pc \in {"done", "failed"}

Is2xx(status) == status >= 200 /\ status <= 299

\* C1: a source whose main-page request failed in transport ends
\* _scrape_universities with its static fallback record, field for field.
C1_TransportFailureGivesFallback ==
  ScrapeReturned =>
    \A c \in DOMAIN universities_data :
      upstream[MainUrl(c)].exc =>
        universities_data[c] = _get_fallback_university_data(c)

ScrapedFields ==
  {"url_accessible", "last_checked", "description", "contact", "status_code",
   "error", "admissions_url_accessible", "admission_requirements", "deadlines",
   "programs", "last_updated", "source_urls"}

WhollyFallback(c) == universities_data[c] = _get_fallback_university_data(c)

WhollyScraped(c) ==
  /\ DOMAIN universities_data[c] \subseteq ScrapedFields
  /\ {"url_accessible", "admissions_url_accessible", "last_updated",
      "source_urls"} \subseteq DOMAIN universities_data[c]
  /\ universities_data[c].source_urls = <<MainUrl(c), AdmissionsUrl(c)>>

\* C2: when _scrape_universities has returned, whatever the requests did, the
\* keys of universities_data are the registry's codes, and each record is
\* either the static fallback record or made of fetch results only, with no
\* field of the fallback record (no status tag) in it.
C2_OneWholeRecordPerSource ==
  ScrapeReturned =>
    /\ DOMAIN universities_data = SeqToSet(UniCodes)
    /\ \A c \in DOMAIN universities_data :
         \/ WhollyFallback(c)
         \/ WhollyScraped(c)

\* every kind of outcome has been met in one run, a transport failure of a
\* main page among them
C2_Witness ==
  /\ ScrapeReturned
  /\ \E c \in DOMAIN universities_data : upstream[MainUrl(c)].exc
  /\ \E c \in DOMAIN universities_data : upstream[AdmissionsUrl(c)].exc
  /\ \E c \in DOMAIN universities_data : universities_data[c].url_accessible

MainOkAdmissionsRefused(c) ==
  /\ ~upstream[MainUrl(c)].exc
  /\ upstream[MainUrl(c)].status = 200
  /\ ~upstream[AdmissionsUrl(c)].exc
  /\ ~Is2xx(upstream[AdmissionsUrl(c)].status)

\* C3: a source whose main page was fetched with success and whose admissions
\* page answered with a non-2xx status has a record with
\* admissions_url_accessible false, without admission_requirements, deadlines
\* and programs, with url_accessible true and with the description and the
\* contact the main page gave.
C3_AdmissionsRefusedKeepsMainFields ==
  \A c \in DOMAIN universities_data :
    MainOkAdmissionsRefused(c) =>
      LET rec == universities_data[c]
          body == upstream[MainUrl(c)].body
      IN  /\ rec.admissions_url_accessible = FALSE
          /\ {"admission_requirements", "deadlines", "programs"}
               \cap DOMAIN rec = {}
          /\ rec.url_accessible = TRUE
          /\ body.meta # <<>> =>
               /\ "description" \in DOMAIN rec
               /\ rec.description = body.meta[1]
          /\ body.emails # <<>> =>
               /\ "contact" \in DOMAIN rec
               /\ rec.contact.emails = SeqToSet(body.emails)
          /\ body.phones # <<>> =>
               /\ "contact" \in DOMAIN rec
               /\ "phones" \in DOMAIN rec.contact

C3_Witness ==
  \E c \in DOMAIN universities_data :
    /\ MainOkAdmissionsRefused(c)
    /\ upstream[MainUrl(c)].body = RichPage
    /\ upstream[AdmissionsUrl(c)].status = 404
    /\ "contact" \in DOMAIN universities_data[c]

\* the position in the registry of the source whose main page is url, or 0
SourceOfMainUrl(url) ==
  LET hits == {k \in 1..Len(UniCodes) : MainUrl(UniCodes[k]) = url}
  IN  IF hits = {} THEN 0 ELSE CHOOSE k \in hits : TRUE

MainSeen == pc \in {"admissions", "sleep"}
AdmissionsSeen == pc = "sleep"
MainAnswer == upstream[MainUrl(UniCodes[idx])]
AdmissionsAnswer == upstream[AdmissionsUrl(UniCodes[idx])]

\* C9 as stated: a page is marked accessible exactly when its request was
\* answered with a 2xx status, for the main page and for the admissions page.
C9_SuccessIff2xx ==
  /\ MainSeen =>
       (main_data.url_accessible
          <=> (~MainAnswer.exc /\ Is2xx(MainAnswer.status)))
  /\ AdmissionsSeen =>
       (admissions_data.admissions_url_accessible
          <=> (~AdmissionsAnswer.exc /\ Is2xx(AdmissionsAnswer.status)))

\* C9 as amended: a page is marked accessible, and its body searched, exactly
\* when its request was answered with status 200; with any other status, the
\* other 2xx codes too, it is marked inaccessible and nothing is extracted (the
\* main page's result carries the status); when the request raised, it is
\* marked inaccessible with the cause as error, and nothing is raised further.
C9_SuccessIff200 ==
  /\ MainSeen =>
       IF MainAnswer.exc
         THEN main_data = ("url_accessible" :> FALSE @@ "error" :> MainAnswer.cause)
         ELSE IF MainAnswer.status = 200
           THEN /\ main_data.url_accessible = TRUE
                /\ "description" \in DOMAIN main_data
                     <=> MainAnswer.body.meta # <<>>
                /\ "contact" \in DOMAIN main_data
                     <=> (MainAnswer.body.emails # <<>>
                          \/ MainAnswer.body.phones # <<>>)
           ELSE main_data = ("url_accessible" :> FALSE
                             @@ "status_code" :> MainAnswer.status)
  /\ AdmissionsSeen =>
       IF AdmissionsAnswer.exc
         THEN admissions_data = ("admissions_url_accessible" :> FALSE
                                 @@ "error" :> AdmissionsAnswer.cause)
         ELSE IF AdmissionsAnswer.status = 200
           THEN /\ admissions_data.admissions_url_accessible = TRUE
                /\ "deadlines" \in DOMAIN admissions_data
                     <=> AdmissionsAnswer.body.dates # <<>>
                /\ AdmissionsAnswer.body = RichPage =>
                     {"admission_requirements", "programs"}
                       \subseteq DOMAIN admissions_data
           ELSE admissions_data = ("admissions_url_accessible" :> FALSE)

\* both pages of a source answered with a 2xx status that is not 200
C9_Witness ==
  /\ AdmissionsSeen
  /\ ~MainAnswer.exc /\ MainAnswer.status = 203
  /\ ~AdmissionsAnswer.exc /\ AdmissionsAnswer.status = 203

\* ------------------------------------------------- claims about persistence

KeyField(name) ==
  CASE name = "universities_data" -> "university_code"
    [] name = "scholarships_data" -> "scholarship_id"
    [] name = "cut_off_points" -> "academic_year"

\* what the current run holds in memory for the document of write w
DataOf(w) ==
  CASE w[1] = "universities_data" -> universities_data[w[2]]
    [] w[1] = "scholarships_data" -> scholarships_data[w[2]]
    [] w[1] = "cut_off_points" -> cut_off_points

\* the documents of a database that have the natural key of write w
Docs(database, w) ==
  SelectSeq(database[w[1]], LAMBDA d : d[KeyField(w[1])] = w[2])

DocCurrent(w) ==
  /\ Len(Docs(db, w)) = 1
  /\ Docs(db, w)[1].data = DataOf(w)

DocUnchanged(w) == Docs(db, w) = Docs(db0, w)

CurrentContent(i) == <<universities_data, scholarships_data, cut_off_points>>[i]
FileCurrent(i) == files[DataFiles[i]] = WrittenFile(CurrentContent(i))
FileUnchanged(i) == files[DataFiles[i]] = files0[DataFiles[i]]

FileFailed == \E i \in 1..Len(FileWrites) : FileWrites[i] \in failed
DbFailed == \E w \in failed : w[1] # "file"
DbAttempted == \E w \in attempted : w[1] # "file"
FilesPerformed ==
  \A i \in 1..Len(FileWrites) : FileWrites[i] \in attempted \ failed

TimestampFields == {"last_updated", "last_checked"}

\* a document without its timestamps and without those of its data
WithoutTimestamps(doc) ==
  [k \in DOMAIN doc \ TimestampFields |->
     IF k = "data"
       THEN [f \in DOMAIN doc[k] \ TimestampFields |-> doc[k][f]]
       ELSE doc[k]]

Undated(collection) ==
  [i \in 1..Len(collection) |-> WithoutTimestamps(collection[i])]

Collections == {"universities_data", "scholarships_data", "cut_off_points"}

\* this run and the one before it both went through with every write
TwoFullRuns == pc = "done" /\ failed = {} /\ prev.clean

C5_PersistenceFailureIsFatal ==
  failed # {} =>
    /\ pc # "done"
    /\ "Data scraping completed successfully!" \notin log

\* C6 as stated: at the end of a run in which a write failed, the three files
\* all hold the current snapshot or are all unchanged, and the documents were
\* all upserted or the database is unchanged.
C6_AllOrNothing ==
  (Ended /\ failed # {}) =>
    /\ \/ \A i \in 1..Len(DataFiles) : FileCurrent(i)
       \/ \A i \in 1..Len(DataFiles) : FileUnchanged(i)
    /\ \/ \A i \in 1..Len(DbWrites) : DocCurrent(DbWrites[i])
       \/ db = db0

\* C6 as amended: at the end of a run in which a write failed, the writes of
\* that kind before the failed one hold the current snapshot and those after
\* it were not begun and are unchanged (the failed file is unchanged or
\* truncated, the failed document unchanged or upserted); a kind without a
\* failed write holds the whole snapshot or was not begun.
C6_PersistedUpToFailure ==
  (Ended /\ failed # {}) =>
    /\ \A i \in 1..Len(FileWrites) :
         FileWrites[i] \in failed =>
           /\ \A j \in 1..(i - 1) : FileCurrent(j)
           /\ files[DataFiles[i]] \in {files0[DataFiles[i]], TruncatedFile}
           /\ \A j \in (i + 1)..Len(FileWrites) :
                FileUnchanged(j) /\ FileWrites[j] \notin attempted
    /\ \A i \in 1..Len(DbWrites) :
         DbWrites[i] \in failed =>
           /\ \A j \in 1..(i - 1) : DocCurrent(DbWrites[j])
           /\ DocUnchanged(DbWrites[i]) \/ DocCurrent(DbWrites[i])
           /\ \A j \in (i + 1)..Len(DbWrites) :
                DocUnchanged(DbWrites[j]) /\ DbWrites[j] \notin attempted
    /\ ~FileFailed => \A i \in 1..Len(DataFiles) : FileCurrent(i)
    /\ ~DbFailed => db = db0 /\ ~DbAttempted

\* a second run's upsert failed after some documents and before others, over
\* the documents of the first run
C6_Witness ==
  /\ Ended
  /\ runs = 2
  /\ <<"scholarships_data", ScholarshipIds[2]>> \in failed
  /\ Len(db0.scholarships_data) = Len(ScholarshipIds)

\* C7 as stated: at the end of a run, a failed file write has not kept the
\* upserts from being begun, and a failed upsert has not kept the three file
\* writes from being made.
C7_IndependentFailureDomains ==
  Ended =>
    /\ FileFailed => DbAttempted
    /\ DbFailed => FilesPerformed

\* C7 as amended: a failed file write ends the run before any upsert is
\* begun; a failed upsert comes after the three file writes were made.
C7_FileFailureEndsRun ==
  /\ FileFailed => (~DbAttempted /\ pc = "failed")
  /\ DbFailed => FilesPerformed

\* the second file write failed after the first was made
C7_Witness ==
  /\ Ended
  /\ FileWrites[2] \in failed
  /\ FileWrites[1] \in attempted \ failed

\* -------------------------------------------------- claims about extractors

\* C10: whatever elements matched, _extract_programs returns at most 20
\* texts, each of 11 to 99 characters, each the stripped text of a matched
\* element, in the order of the elements.
C10_ProgramsCappedAndOrdered ==
  xpc = "programs" =>
    /\ Len(extracted) <= 20
    /\ \A i \in 1..Len(extracted) :
         /\ TextLen(extracted[i]) >= 11
         /\ TextLen(extracted[i]) <= 99
         /\ extracted[i].id \in 1..Len(elements)
         /\ extracted[i].core = elements[extracted[i].id].text.core
    /\ \A i, j \in 1..Len(extracted) :
         i < j => extracted[i].id < extracted[j].id

\* 50 matches, all of a kept length: 20 are returned
C10_Witness ==
  /\ xpc = "programs"
  /\ Len(elements) >= 50
  /\ \A i \in 1..Len(elements) : elements[i].text.core = 55
  /\ Len(extracted) = 20

\* the sections _extract_admission_requirements looks at, and those it kept
Considered == 1..(IF Len(sections) < 3 THEN Len(sections) ELSE 3)
KeptSections == {extracted[j].id : j \in 1..Len(extracted)}
ParentLength(i) == sections[i].parent.core

\* what holds of the result whichever the lower limit: at most 3 texts, each
\* the stripped text around one of the first 3 sections, in their order
RequirementsFromFirstThree ==
  /\ Len(extracted) <= 3
  /\ KeptSections \subseteq Considered
  /\ \A j \in 1..Len(extracted) :
       extracted[j] = [id |-> extracted[j].id, lead |-> 0,
                       core |-> ParentLength(extracted[j].id), trail |-> 0]
  /\ \A i, j \in 1..Len(extracted) : i < j => extracted[i].id < extracted[j].id

\* C11 as stated: of the first 3 matched sections, the text around a section
\* is kept exactly when its length L has 20 <= L < 500; never more than 3.
C11_KeptFrom20 ==
  xpc = "requirements" =>
    /\ RequirementsFromFirstThree
    /\ \A i \in Considered :
         i \in KeptSections <=> (20 <= ParentLength(i) /\ ParentLength(i) < 500)

\* C11 as amended: of the first 3 matched sections, the text around a section
\* is kept exactly when its length L has 20 < L < 500: 21 and 499 are kept,
\* 19, 20 and 500 are dropped; never more than 3.
C11_KeptFrom21 ==
  xpc = "requirements" =>
    /\ RequirementsFromFirstThree
    /\ \A i \in Considered :
         i \in KeptSections <=> (20 < ParentLength(i) /\ ParentLength(i) < 500)

\* more than 3 sections matched, the first of length 20, the second of 21
C11_Witness ==
  /\ xpc = "requirements"
  /\ Len(sections) > 3
  /\ ParentLength(1) = 20
  /\ ParentLength(2) = 21
  /\ KeptSections = {2, 3}

\* ---------------------------------------------------- claims about requests

\* the main page and then the admissions page of each source, in registry order
ExpectedRequests ==
  [i \in 1..(2 * Len(UniCodes)) |->
     IF i % 2 = 1 THEN MainUrl(UniCodes[(i + 1) \div 2])
                  ELSE AdmissionsUrl(UniCodes[i \div 2])]

\* how many times a run has asked for url
TimesRequested(url) ==
  Cardinality({i \in 1..Len(requests) : requests[i].url = url})

\* C12: the requests of a run are, one after the other, the main page and
\* then the admissions page of each source in registry order; each is issued
\* after the one before it was answered or failed, whatever that outcome was,
\* and none is issued again: when _scrape_universities returns, every URL of
\* the registry has been asked for exactly once, two requests per source.
C12_TwoSequentialRequestsPerSource ==
  /\ Len(requests) <= Len(ExpectedRequests)
  /\ \A i \in 1..Len(requests) : requests[i].url = ExpectedRequests[i]
  /\ \A i \in 1..(Len(requests) - 1) : requests[i + 1].at >= requests[i].at + 1
  /\ \A i \in 1..Len(requests) : requests[i].at < clock
  /\ ScrapeReturned =>
       /\ Len(requests) = 2 * Len(UniCodes)
       /\ \A c \in SeqToSet(UniCodes) :
            /\ TimesRequested(MainUrl(c)) = 1
            /\ TimesRequested(AdmissionsUrl(c)) = 1

\* a run in which every main-page request failed and nothing was asked again
C12_Witness ==
  /\ ScrapeReturned
  /\ \A c \in SeqToSet(UniCodes) : upstream[MainUrl(c)].exc
  /\ \E c \in SeqToSet(UniCodes) : upstream[AdmissionsUrl(c)].exc
  /\ \E c \in SeqToSet(UniCodes) : ~upstream[AdmissionsUrl(c)].exc
  /\ Len(requests) = 2 * Len(UniCodes)

====
